---------------------------- MODULE Spec2Model ----------------------------
(***************************************************************************)
(* Model of the bandwidth-saving image proxy of src/proxy1.js.             *)
(*                                                                         *)
(* The file holds two variants of the same handler:                        *)
(*   variant "A"  lines   1-208  (superagent fetch, sharp fed by hand)     *)
(*   variant "B"  lines 210-410  (https.get fetch, origin piped to sharp)  *)
(* One behaviour of the model is one request handled by one variant.       *)
(*                                                                         *)
(* Strings that the code parses or transforms (url, l, content-length,     *)
(* content-type) are tuples of one-character strings, so that parseInt,    *)
(* decodeURIComponent, encodeURI, startsWith and endsWith are computed.    *)
(* Strings that are only stored and compared are TLA+ strings.             *)
(***************************************************************************)
EXTENDS Integers, Sequences, FiniteSets, TLC

VARIABLES
    variant,    \* which handler of the file serves the request
    query,      \* req.query: url, jpeg, bw, l
    inHeaders,  \* req.headers (via, x-forwarded-for, range) and req.ip
    params,     \* req.params
    pc,         \* position of the request in the handler and its callbacks
    res,        \* the client response (http.ServerResponse)
    origin,     \* the origin response handed to the handler
    fetches,    \* origin requests issued for this request
    hops,       \* origin redirects followed so far
    body,       \* the origin body stream
    codec,      \* the sharp instance
    buf,        \* variant B's bufferChunks / bufferSize
    log         \* what happened: routing, failures, escaped exceptions

vars == <<variant, query, inHeaders, params, pc, res, origin, fetches, hops,
          body, codec, buf, log>>

---------------------------------------------------------------------------
(* Program constants *)

DEFAULT_QUALITY == 40
MIN_COMPRESS_LENGTH == 1024
MIN_TRANSPARENT_COMPRESS_LENGTH == MIN_COMPRESS_LENGTH * 100
MAX_HEIGHT == 16383
MAX_REDIRECTS == 4
FLUSH_THRESHOLD == 1048576

(* Bounds of the model *)

MaxBodyChunks == 2      \* data events of the origin body per request
MaxEncChunks == 2       \* data events of the codec per request

---------------------------------------------------------------------------
(* JavaScript values *)

\* undefined, for a string-valued slot
Undefined == <<"undefined">>

\* a number: NaN, or an integer
NaN == [nan |-> TRUE, v |-> 0]
Num(n) == [nan |-> FALSE, v |-> n]

\* ToBoolean of a string-valued slot
Truthy(s) == s # Undefined /\ s # <<>>

\* ToBoolean of a number
TruthyNum(n) == ~n.nan /\ n.v # 0

\* a < b and a > b on numbers: false when either is NaN
NumLt(a, b) == ~a.nan /\ ~b.nan /\ a.v < b.v
NumGt(a, b) == ~a.nan /\ ~b.nan /\ a.v > b.v

RECURSIVE Str(_)
\* the TLA+ string of a tuple of characters
Str(s) == IF s = <<>> THEN "" ELSE Head(s) \o Str(Tail(s))

\* String(n)
NumStr(n) == IF n.nan THEN "NaN" ELSE ToString(n.v)

StartsWith(s, p) == Len(s) >= Len(p) /\ SubSeq(s, 1, Len(p)) = p
EndsWith(s, p) == Len(s) >= Len(p) /\ SubSeq(s, Len(s) - Len(p) + 1, Len(s)) = p

HexDigits == <<"0","1","2","3","4","5","6","7","8","9","a","b","c","d","e","f">>

\* the value of character c as a digit of the radix, or -1
DigitVal(c, radix) ==
    LET lc == CASE c = "A" -> "a" [] c = "B" -> "b" [] c = "C" -> "c"
                [] c = "D" -> "d" [] c = "E" -> "e" [] c = "F" -> "f"
                [] OTHER -> c
        hit == {i \in 1..radix : HexDigits[i] = lc}
    IN IF hit = {} THEN -1 ELSE (CHOOSE i \in hit : TRUE) - 1

RECURSIVE SkipSpace(_)
SkipSpace(s) == IF s # <<>> /\ Head(s) = " " THEN SkipSpace(Tail(s)) ELSE s

RECURSIVE DigitRun(_, _, _, _)
\* the digits read from s in the radix: [n |-> digits read, v |-> their value]
DigitRun(s, radix, n, acc) ==
    IF s = <<>> \/ DigitVal(Head(s), radix) < 0
    THEN [n |-> n, v |-> acc]
    ELSE DigitRun(Tail(s), radix, n + 1, acc * radix + DigitVal(Head(s), radix))

\* parseInt(s, radix); radix 0 stands for an omitted radix
ParseInt(s, radix) ==
    IF s = Undefined THEN NaN
    ELSE
    LET t == SkipSpace(s)
        neg == t # <<>> /\ Head(t) = "-"
        u == IF t # <<>> /\ Head(t) \in {"-", "+"} THEN Tail(t) ELSE t
        hex == radix = 0 /\ Len(u) >= 2 /\ u[1] = "0" /\ u[2] \in {"x", "X"}
        r == IF hex THEN 16 ELSE IF radix = 0 THEN 10 ELSE radix
        d == DigitRun(IF hex THEN SubSeq(u, 3, Len(u)) ELSE u, r, 0, 0)
    IN IF d.n = 0 THEN NaN ELSE Num(IF neg THEN -d.v ELSE d.v)

\* the characters an escape %XX of the model's alphabet stands for
EscapeChar(h) ==
    CASE h = <<"2","0">> -> " "
      [] h = <<"2","5">> -> "%"
      [] h = <<"2","f">> -> "/"
      [] h = <<"3","a">> -> ":"
      [] OTHER -> "?"

RECURSIVE DecodeFrom(_)
\* decodeURIComponent: [ok |-> FALSE] stands for the URIError it throws
DecodeFrom(s) ==
    IF s = <<>> THEN [ok |-> TRUE, v |-> <<>>]
    ELSE IF Head(s) # "%"
    THEN LET r == DecodeFrom(Tail(s))
         IN [ok |-> r.ok, v |-> <<Head(s)>> \o r.v]
    ELSE IF Len(s) < 3 \/ DigitVal(s[2], 16) < 0 \/ DigitVal(s[3], 16) < 0
    THEN [ok |-> FALSE, v |-> <<>>]
    ELSE LET r == DecodeFrom(SubSeq(s, 4, Len(s)))
             h == <<HexDigits[DigitVal(s[2], 16) + 1], HexDigits[DigitVal(s[3], 16) + 1]>>
         IN [ok |-> r.ok, v |-> <<EscapeChar(h)>> \o r.v]

decodeURIComponent(s) == DecodeFrom(s)

RECURSIVE encodeURI(_)
\* encodeURI: escapes what is neither reserved nor unreserved
encodeURI(s) ==
    IF s = <<>> THEN <<>>
    ELSE (CASE Head(s) = " " -> <<"%","2","0">>
            [] Head(s) = "%" -> <<"%","2","5">>
            [] OTHER -> <<Head(s)>>) \o encodeURI(Tail(s))

---------------------------------------------------------------------------
(* http.ServerResponse, as far as the handlers use it.  An operation yields *)
(* [res, threw]: the response after it, and whether it threw.               *)

NoHeaders == [k \in {} |-> ""]

FreshResponse ==
    [statusCode |-> 200, headers |-> NoHeaders,
     headersSent |-> FALSE, sentStatus |-> 0, sentHeaders |-> NoHeaders,
     bodyLen |-> 0, bodyText |-> "", ended |-> FALSE, destroyed |-> FALSE,
     needDrain |-> FALSE, lateWrite |-> FALSE]

\* header names are stored in lower case
Lower(k) ==
    CASE k = "Location" -> "location"
      [] k = "Content-Length" -> "content-length"
      [] k = "Content-Type" -> "content-type"
      [] k = "Content-Encoding" -> "content-encoding"
      [] k = "Access-Control-Allow-Origin" -> "access-control-allow-origin"
      [] k = "Cross-Origin-Resource-Policy" -> "cross-origin-resource-policy"
      [] k = "Cross-Origin-Embedder-Policy" -> "cross-origin-embedder-policy"
      [] k = "X-Proxy-Bypass" -> "x-proxy-bypass"
      [] k = "X-Original-Size" -> "x-original-size"
      [] k = "X-Bytes-Saved" -> "x-bytes-saved"
      [] OTHER -> k

Put(h, k, v) == [x \in DOMAIN h \cup {k} |-> IF x = k THEN v ELSE h[x]]
Drop(h, k) == [x \in DOMAIN h \ {k} |-> h[x]]
Has(h, k) == k \in DOMAIN h

Ok(r) == [res |-> r, threw |-> FALSE]
Throw(r) == [res |-> r, threw |-> TRUE]

\* run Op on the response of x unless x threw
Then(x, Op(_)) == IF x.threw THEN x ELSE Op(x.res)

\* res.setHeader(k, v): ERR_HTTP_HEADERS_SENT once the header block is stored
setHeader(r, k, v) ==
    IF r.headersSent THEN Throw(r)
    ELSE Ok([r EXCEPT !.headers = Put(@, Lower(k), v)])

\* res.removeHeader(k): ERR_HTTP_HEADERS_SENT once the header block is stored
removeHeader(r, k) ==
    IF r.headersSent THEN Throw(r)
    ELSE Ok([r EXCEPT !.headers = Drop(@, Lower(k))])

\* the header block is built from the status and the headers set so far
StoreHeader(r) ==
    IF r.headersSent THEN r
    ELSE [r EXCEPT !.headersSent = TRUE, !.sentStatus = r.statusCode,
                   !.sentHeaders = r.headers]

\* res.writeHead(status, {k1: v1, k2: v2}): merges the two headers into the
\* ones set so far and stores the header block
writeHead(r, status, k1, v1, k2, v2) ==
    IF r.headersSent THEN Throw(r)
    ELSE Ok(StoreHeader([r EXCEPT !.statusCode = status,
                !.headers = Put(Put(@, Lower(k1), v1), Lower(k2), v2)]))

\* res.write(chunk) of n bytes.  On a response whose connection is gone the
\* chunk is dropped with ERR_STREAM_DESTROYED and write returns false
write(r, n) ==
    IF r.ended THEN Throw(r)
    ELSE IF r.destroyed THEN Ok([r EXCEPT !.lateWrite = TRUE])
    ELSE Ok([StoreHeader(r) EXCEPT !.bodyLen = @ + n])

\* the value res.write returned was false: the chunk went to a socket buffer
\* above its high-water mark (full), or to a connection that is gone
Blocked(r, full) ==
    [r EXCEPT !.needDrain = (@ \/ full) /\ ~r.destroyed]

\* res.end()
end(r) ==
    IF r.ended THEN Ok(r)
    ELSE Ok([StoreHeader(r) EXCEPT !.ended = TRUE])

\* res.end(text)
endText(r, text, n) ==
    IF r.ended THEN Ok(r)
    ELSE Ok([StoreHeader(r) EXCEPT !.ended = TRUE, !.bodyText = text,
                                   !.bodyLen = @ + n])

\* res.status(400).send("Invalid URL") of the framework
sendInvalidURL(r) ==
    IF r.headersSent THEN Throw(r)
    ELSE endText([r EXCEPT !.statusCode = 400,
                     !.headers = Put(Put(@, "content-type", "text/html; charset=utf-8"),
                                     "content-length", "11")],
                 "Invalid URL", 11)

\* req.socket.destroy()
destroySocket(r) == [r EXCEPT !.destroyed = TRUE]

---------------------------------------------------------------------------
(* Helpers of the handlers *)

CacheHeaders == <<"cache-control", "expires", "date", "etag">>

\* variant A, redirect(req, res)
redirectA(r, url) ==
    IF r.headersSent THEN Ok(r)
    ELSE
    LET h == writeHead(r, 302, "Location", Str(encodeURI(url)), "Content-Length", "0")
        r1 == Then(h, LAMBDA x : removeHeader(x, CacheHeaders[1]))
        r2 == Then(r1, LAMBDA x : removeHeader(x, CacheHeaders[2]))
        r3 == Then(r2, LAMBDA x : removeHeader(x, CacheHeaders[3]))
        r4 == Then(r3, LAMBDA x : removeHeader(x, CacheHeaders[4]))
    IN Then(r4, LAMBDA x : end(x))

\* variant B, redirect(req, res)
redirectB(r, url) ==
    IF r.headersSent THEN Ok(r)
    ELSE
    LET h == setHeader(r, "content-length", NumStr(Num(0)))
        r1 == Then(h, LAMBDA x : removeHeader(x, "cache-control"))
        r2 == Then(r1, LAMBDA x : removeHeader(x, "expires"))
        r3 == Then(r2, LAMBDA x : removeHeader(x, "date"))
        r4 == Then(r3, LAMBDA x : removeHeader(x, "etag"))
        r5 == Then(r4, LAMBDA x : setHeader(x, "location", Str(encodeURI(url))))
        r6 == Then(r5, LAMBDA x : Ok([x EXCEPT !.statusCode = 302]))
    IN Then(r6, LAMBDA x : end(x))

redirect(v, r, url) == IF v = "A" THEN redirectA(r, url) ELSE redirectB(r, url)

\* copyHeaders(source, target): a setHeader that throws is logged and skipped
copyHeaders(src, r) ==
    IF r.headersSent THEN r
    ELSE [r EXCEPT !.headers =
            [k \in DOMAIN @ \cup DOMAIN src |->
                IF k \in DOMAIN src THEN Str(src[k]) ELSE @[k]]]

\* setPolicyHeaders with a fault: Content-Encoding is left as copied
setPolicyHeaders_NoEncoding(r) ==
    LET r2 == setHeader(r, "Access-Control-Allow-Origin", "*")
        r3 == Then(r2, LAMBDA x : setHeader(x, "Cross-Origin-Resource-Policy", "cross-origin"))
    IN Then(r3, LAMBDA x : setHeader(x, "Cross-Origin-Embedder-Policy", "unsafe-none"))

\* the four headers both variants set after copyHeaders
setPolicyHeaders(r) ==
    LET r1 == setHeader(r, "Content-Encoding", "identity")
        r2 == Then(r1, LAMBDA x : setHeader(x, "Access-Control-Allow-Origin", "*"))
        r3 == Then(r2, LAMBDA x : setHeader(x, "Cross-Origin-Resource-Policy", "cross-origin"))
    IN Then(r3, LAMBDA x : setHeader(x, "Cross-Origin-Embedder-Policy", "unsafe-none"))

image == <<"i","m","a","g","e">>
png == <<"p","n","g">>
gif == <<"g","i","f">>

\* shouldCompressA with a fault: <= for < at the webp threshold
shouldCompressA_OffByOne(p, range) ==
    /\ StartsWith(p.originType, image)
    /\ NumGt(p.originSize, Num(0))
    /\ ~Truthy(range)
    /\ ~(p.webp /\ ~NumGt(p.originSize, Num(MIN_COMPRESS_LENGTH)))
    /\ ~(/\ ~p.webp
         /\ (EndsWith(p.originType, png) \/ EndsWith(p.originType, gif))
         /\ NumLt(p.originSize, Num(MIN_TRANSPARENT_COMPRESS_LENGTH)))

\* variant A, shouldCompress(req)
shouldCompressA(p, range) ==
    /\ StartsWith(p.originType, image)
    /\ NumGt(p.originSize, Num(0))
    /\ ~Truthy(range)
    /\ ~(p.webp /\ NumLt(p.originSize, Num(MIN_COMPRESS_LENGTH)))
    /\ ~(/\ ~p.webp
         /\ (EndsWith(p.originType, png) \/ EndsWith(p.originType, gif))
         /\ NumLt(p.originSize, Num(MIN_TRANSPARENT_COMPRESS_LENGTH)))

\* shouldCompressB with a fault: <= for < at the png/gif threshold
shouldCompressB_TransparentOffByOne(p, range) ==
    IF ~StartsWith(p.originType, image) THEN FALSE
    ELSE IF ~p.originSize.nan /\ p.originSize.v = 0 THEN FALSE
    ELSE IF Truthy(range) THEN FALSE
    ELSE IF p.webp /\ NumLt(p.originSize, Num(MIN_COMPRESS_LENGTH)) THEN FALSE
    ELSE IF /\ ~p.webp
            /\ (EndsWith(p.originType, png) \/ EndsWith(p.originType, gif))
            /\ ~NumGt(p.originSize, Num(MIN_TRANSPARENT_COMPRESS_LENGTH))
         THEN FALSE
    ELSE TRUE

\* shouldCompressB with a fault: the Range check is lost
shouldCompressB_NoRange(p, range) ==
    IF ~StartsWith(p.originType, image) THEN FALSE
    ELSE IF ~p.originSize.nan /\ p.originSize.v = 0 THEN FALSE
    ELSE IF p.webp /\ NumLt(p.originSize, Num(MIN_COMPRESS_LENGTH)) THEN FALSE
    ELSE IF /\ ~p.webp
            /\ (EndsWith(p.originType, png) \/ EndsWith(p.originType, gif))
            /\ NumLt(p.originSize, Num(MIN_TRANSPARENT_COMPRESS_LENGTH))
         THEN FALSE
    ELSE TRUE

\* variant B, shouldCompress(req)
shouldCompressB(p, range) ==
    IF ~StartsWith(p.originType, image) THEN FALSE
    ELSE IF ~p.originSize.nan /\ p.originSize.v = 0 THEN FALSE
    ELSE IF Truthy(range) THEN FALSE
    ELSE IF p.webp /\ NumLt(p.originSize, Num(MIN_COMPRESS_LENGTH)) THEN FALSE
    ELSE IF /\ ~p.webp
            /\ (EndsWith(p.originType, png) \/ EndsWith(p.originType, gif))
            /\ NumLt(p.originSize, Num(MIN_TRANSPARENT_COMPRESS_LENGTH))
         THEN FALSE
    ELSE TRUE

shouldCompress(v, p, range) ==
    IF v = "A" THEN shouldCompressA(p, range) ELSE shouldCompressB(p, range)

---------------------------------------------------------------------------
(* Inputs: the requests and origin answers the model draws from *)

\* "h:" stands for the scheme "https:"
Urls ==
    { Undefined,
      <<>>,
      <<"h",":","/","a">>,
      <<"h",":","/","a"," ","b">>,
      <<"h",":","/","a","%","2","5","2","0","b">>,
      <<"h",":","/","%">>,
      <<"a">> }

JpegFlags == { Undefined, <<>>, <<"1">>, <<"0">> }

BwFlags ==
    { Undefined, <<>>, <<"0">>, <<"1">>, <<"0","0">>, <<"0",".","0">>,
      <<"f","a","l","s","e">> }

Qualities ==
    { Undefined, <<"a","b","c">>, <<"0">>, <<"-","5">>, <<"1","5","0">>, <<"8","0">> }

Signature ==
    <<"1",".","1"," ","b","a","n","d","w","i","d","t","h","-","h","e","r","o">>

Loopback4 == <<"1","2","7",".","0",".","0",".","1">>
Loopback6 == <<":",":","1">>
Remote == <<"1","0",".","0",".","0",".","9">>

\* via, x-forwarded-for and the peer address of the inbound request
Callers ==
    { [via |-> Undefined, xff |-> Undefined, ip |-> Remote],
      [via |-> Signature, xff |-> Loopback4, ip |-> Remote],
      [via |-> Signature, xff |-> Undefined, ip |-> Loopback6],
      [via |-> Signature, xff |-> Remote, ip |-> Loopback6] }

Ranges == { Undefined, <<>>, <<"b","y","t","e","s","=","0","-","9">> }

ContentTypes ==
    { Undefined,
      <<"i","m","a","g","e","/","j","p","e","g">>,
      <<"i","m","a","g","e","/","p","n","g">>,
      <<"i","m","a","g","e","/","g","i","f">>,
      <<"t","e","x","t","/","h","t","m","l">> }

ContentLengths ==
    { Undefined,
      <<>>,
      <<"0">>,
      <<"a","b","c">>,
      <<"-","5">>,
      <<"5","0","0">>,
      <<"1","0","2","3">>,
      <<"1","0","2","4">>,
      <<"2","0","0","0">>,
      <<"1","0","2","3","9","9">>,
      <<"1","0","2","4","0","0">> }

\* the narrower inputs of the specification of the whole pipeline
PipeUrls == { Undefined, <<"h",":","/","a"," ","b">>, <<"h",":","/","%">>, <<"a">> }
PipeJpegFlags == { Undefined, <<"1">> }
PipeBwFlags == { Undefined }
PipeQualities == { Undefined, <<"1","5","0">> }
PipeRanges == { Undefined, <<"b","y","t","e","s","=","0","-","9">> }
PipeContentTypes ==
    { <<"i","m","a","g","e","/","j","p","e","g">>, <<"t","e","x","t","/","h","t","m","l">> }
PipeContentLengths == { Undefined, <<"a","b","c">>, <<"2","0","0","0">> }

\* the inputs of the specification of the compress-or-bypass decision
PolicyUrls == { <<"h",":","/","a">> }
PolicyJpegFlags == { Undefined, <<"1">> }
PolicyQualities == { Undefined }

Location == <<"h",":","/","m","o","v","e","d">>

\* the headers of an origin response
OriginHeaders(ct, cl, cache, loc) ==
    LET dom == (IF ct = Undefined THEN {} ELSE {"content-type"})
               \cup (IF cl = Undefined THEN {} ELSE {"content-length"})
               \cup (IF cache THEN {"cache-control", "etag"} ELSE {})
               \cup (IF loc = Undefined THEN {} ELSE {"location"})
    IN [k \in dom |->
            CASE k = "content-type" -> ct
              [] k = "content-length" -> cl
              [] k = "cache-control" -> <<"m","a","x","-","a","g","e","=","9">>
              [] k = "etag" -> <<"e","1">>
              [] k = "location" -> loc]

\* source.headers[k], undefined when the header is absent
Header(h, k) == IF k \in DOMAIN h THEN h[k] ELSE Undefined

\* a || b on string-valued slots
OrElse(a, b) == IF Truthy(a) THEN a ELSE b

\* the length of the body of an origin response that declares none
UndeclaredBodyLen == 700

EncChunkSizes == { 300, 600000, 1100000 }

\* what the codec may emit: 1..MaxEncChunks chunks
EncOutputs == UNION { [1..n -> EncChunkSizes] : n \in 1..MaxEncChunks }

RECURSIVE Sum(_)
Sum(s) == IF s = <<>> THEN 0 ELSE Head(s) + Sum(Tail(s))

NoOrigin == [status |-> 0, headers |-> NoHeaders]
NoParams ==
    [url |-> Undefined, webp |-> FALSE, grayscale |-> FALSE, quality |-> NaN,
     originType |-> Undefined, originSize |-> NaN]
IdleBody == [state |-> "none", left |-> 0, events |-> 0]
IdleCodec == [state |-> "none", input |-> 0, resized |-> FALSE, info |-> FALSE,
              out |-> <<>>, size |-> 0, paused |-> FALSE]
EmptyBuf == [chunks |-> 0, size |-> 0]
EmptyLog == [routed |-> "none", fail |-> "none", failLate |-> FALSE,
             uncaught |-> "none", fetchFail |-> "none", clientGone |-> FALSE,
             resThrew |-> FALSE]

\* a request arrives: the state before hhproxy runs
InitFrom(urls, jpegs, bws, ls, callers, ranges) ==
    /\ variant \in {"A", "B"}
    /\ query \in [url : urls, jpeg : jpegs, bw : bws, l : ls]
    /\ \E c \in callers, r \in ranges :
          inHeaders = [via |-> c.via, xff |-> c.xff, ip |-> c.ip, range |-> r]
    /\ params = NoParams
    /\ pc = "start"
    /\ res = FreshResponse
    /\ origin = NoOrigin
    /\ fetches = 0
    /\ hops = 0
    /\ body = IdleBody
    /\ codec = IdleCodec
    /\ buf = EmptyBuf
    /\ log = EmptyLog

---------------------------------------------------------------------------
(* Parameter resolution *)

RECURSIVE AllZero(_)
AllZero(s) == s = <<>> \/ (Head(s) = "0" /\ AllZero(Tail(s)))

RECURSIVE AllDigits(_)
AllDigits(s) == s = <<>> \/ (DigitVal(Head(s), 10) >= 0 /\ AllDigits(Tail(s)))

RECURSIVE TrimRight(_)
TrimRight(s) ==
    IF s # <<>> /\ s[Len(s)] = " " THEN TrimRight(SubSeq(s, 1, Len(s) - 1)) ELSE s

\* ToNumber(s) of a string, as far as == needs it: "nan", "zero" or "other"
ToNumberKind(s) ==
    LET t == TrimRight(SkipSpace(s))
        u == IF t # <<>> /\ Head(t) \in {"-", "+"} THEN Tail(t) ELSE t
        dots == {i \in 1..Len(u) : u[i] = "."}
        ip == IF dots = {} THEN u
              ELSE SubSeq(u, 1, (CHOOSE i \in dots : \A j \in dots : i <= j) - 1)
        fp == IF dots = {} THEN <<>>
              ELSE SubSeq(u, (CHOOSE i \in dots : \A j \in dots : i <= j) + 1, Len(u))
    IN IF t = <<>> THEN "zero"
       ELSE IF ~AllDigits(ip) \/ ~AllDigits(fp) \/ (ip = <<>> /\ fp = <<>>) THEN "nan"
       ELSE IF AllZero(ip) /\ AllZero(fp) THEN "zero"
       ELSE "other"

\* LooseNotZero with a fault: the strict comparison with the string "0"
LooseNotZero_Strict(s) == s # <<"0">>

\* s != 0 with s a query value
LooseNotZero(s) == s = Undefined \/ ToNumberKind(s) # "zero"

\* parseInt(req.query.l, 10) || DEFAULT_QUALITY
resolveQuality(l) ==
    LET q == ParseInt(l, 10)
    IN IF TruthyNum(q) THEN q ELSE Num(DEFAULT_QUALITY)

\* req.params as hhproxy sets it (both variants)
resolveParams(q, url) ==
    [url |-> url,
     webp |-> ~Truthy(q.jpeg),
     grayscale |-> LooseNotZero(q.bw),
     quality |-> resolveQuality(q.l),
     originType |-> Undefined,
     originSize |-> NaN]

\* noTarget with a fault: only the empty url counts as missing
noTargetEmptyOnly(q) == q.url = <<>>

\* if (!url) of hhproxy (both variants)
noTarget(q) == ~Truthy(q.url)

\* variant A: the request came from this proxy on this host
isLoop(h) ==
    /\ h.via = Signature
    /\ OrElse(h.xff, h.ip) \in {Loopback4, Loopback6}

\* https.get(url, ...) throws ERR_INVALID_URL unless the url is absolute
ValidURL(u) == StartsWith(u, <<"h",":","/">>)

\* an exception that leaves the handler: a rejection of the async function or
\* of a promise callback, an exception of an event listener
Escaped(l, threw, kind) ==
    IF threw /\ l.uncaught = "none" THEN [l EXCEPT !.uncaught = kind] ELSE l

\* an operation on the response threw (a header mutation after the header
\* block was sent, a write after the end) and the exception leaves the handler
Raised(l, threw, kind) ==
    Escaped([l EXCEPT !.resThrew = @ \/ threw], threw, kind)

---------------------------------------------------------------------------
(* hhproxy: from the entry to the origin request *)

\* variant A, hhproxy up to the await of superagent.get
A_Start ==
    /\ pc = "start" /\ variant = "A"
    /\ IF noTarget(query)
       THEN /\ res' = endText(res, "bandwidth-hero-proxy", 20).res
            /\ pc' = "done"
            /\ UNCHANGED <<params, fetches, log>>
       ELSE IF ~decodeURIComponent(query.url).ok
       THEN /\ log' = Escaped(log, TRUE, "rejection")
            /\ pc' = "done"
            /\ UNCHANGED <<params, fetches, res>>
       ELSE LET p == resolveParams(query, decodeURIComponent(query.url).v)
            IN /\ params' = p
               /\ IF isLoop(inHeaders)
                  THEN LET r == redirectA(res, p.url)
                       IN /\ res' = r.res
                          /\ log' = Raised(log, r.threw, "rejection")
                          /\ pc' = "done"
                          /\ UNCHANGED fetches
                  ELSE /\ fetches' = 1
                       /\ pc' = "fetch"
                       /\ UNCHANGED <<res, log>>
    /\ UNCHANGED <<variant, query, inHeaders, origin, hops, body, codec, buf>>

\* variant B, _onRequestError(req, res, err)
onRequestError(r, url, code) ==
    IF code = "ERR_INVALID_URL"
    THEN endText([r EXCEPT !.statusCode = 400], "Invalid URL", 11)
    ELSE redirectB(r, url)

\* variant B, hhproxy up to https.get
B_Start ==
    /\ pc = "start" /\ variant = "B"
    /\ IF noTarget(query)
       THEN /\ res' = endText(res, "bandwidth-hero-proxy", 20).res
            /\ pc' = "done"
            /\ UNCHANGED <<params, fetches, log>>
       ELSE IF ~decodeURIComponent(query.url).ok
       THEN /\ log' = Escaped(log, TRUE, "rejection")
            /\ pc' = "done"
            /\ UNCHANGED <<params, fetches, res>>
       ELSE LET p == resolveParams(query, decodeURIComponent(query.url).v)
            IN /\ params' = p
               /\ IF ~ValidURL(p.url)
                  THEN LET r == onRequestError(res, p.url, "ERR_INVALID_URL")
                       IN /\ res' = r.res
                          /\ log' = Raised(log, r.threw, "rejection")
                          /\ pc' = "done"
                          /\ UNCHANGED fetches
                  ELSE /\ fetches' = 1
                       /\ pc' = "fetch"
                       /\ UNCHANGED <<res, log>>
    /\ UNCHANGED <<variant, query, inHeaders, origin, hops, body, codec, buf>>

---------------------------------------------------------------------------
(* The origin answers *)

\* the body stream of an origin response that is served
OpenBody(size) ==
    [state |-> "open",
     left |-> IF ~size.nan /\ size.v > 0 THEN size.v ELSE UndeclaredBodyLen,
     events |-> 0]

PassHeaders == <<"accept-ranges", "content-type", "content-length", "content-range">>

RECURSIVE passThrough(_, _, _)
\* the forEach that copies the pass-through headers onto the response
passThrough(r, h, i) ==
    IF i > Len(PassHeaders) THEN r
    ELSE passThrough(
            IF Truthy(Header(h, PassHeaders[i]))
            THEN Then(r, LAMBDA x : setHeader(x, PassHeaders[i], Str(h[PassHeaders[i]])))
            ELSE r,
            h, i + 1)

\* both variants: an origin response that is served, from copyHeaders to the
\* choice between compress and the pass-through pipe; radix 0 is parseInt
\* without a radix
serve(v, r, p, h, range, radix) ==
    LET r1 == setPolicyHeaders(copyHeaders(h, r))
        p1 == [p EXCEPT
                 !.originType = OrElse(Header(h, "content-type"), <<>>),
                 !.originSize = ParseInt(OrElse(Header(h, "content-length"), <<"0">>), radix)]
        go == shouldCompress(v, p1, range)
        r2 == IF go THEN r1
              ELSE passThrough(Then(r1, LAMBDA x : setHeader(x, "X-Proxy-Bypass", "1")), h, 1)
    IN [res |-> r2.res, threw |-> r2.threw, params |-> p1,
        routed |-> IF go THEN "transcode" ELSE "bypass"]

\* the err.code of a fetch that fails below HTTP: name resolution, refused
\* connection, TLS handshake, timeout
NetworkErrors == {"ENOTFOUND", "ECONNREFUSED", "EPROTO", "ETIMEDOUT"}

\* variant A: superagent follows a redirect of the origin
A_FetchRedirect ==
    /\ pc = "fetch" /\ variant = "A"
    /\ hops < MAX_REDIRECTS
    /\ hops' = hops + 1
    /\ fetches' = fetches + 1
    /\ UNCHANGED <<variant, query, inHeaders, params, pc, res, origin, body,
                   codec, buf, log>>

\* variant A: the await throws; the catch block of hhproxy
A_FetchFail ==
    /\ pc = "fetch" /\ variant = "A"
    /\ \E kind \in {"redirects", "404", "500"} \cup NetworkErrors :
          /\ kind = "redirects" => hops = MAX_REDIRECTS
          /\ LET r == IF kind \in {"404", "redirects"}
                      THEN redirectA(res, params.url)
                      ELSE sendInvalidURL(res)
             IN /\ res' = r.res
                /\ log' = [Raised(log, r.threw, "rejection") EXCEPT !.fetchFail = kind]
          /\ origin' = [status |-> CASE kind = "redirects" -> 302
                                     [] kind = "404" -> 404
                                     [] kind = "500" -> 500
                                     [] OTHER -> 0,
                        headers |-> OriginHeaders(Undefined, Undefined, FALSE,
                                      IF kind = "redirects" THEN Location ELSE Undefined)]
    /\ pc' = "done"
    /\ UNCHANGED <<variant, query, inHeaders, params, fetches, hops, body, codec, buf>>

\* variant A: the await returns a response; hhproxy after the await
A_FetchOk(cts, cls) ==
    /\ pc = "fetch" /\ variant = "A"
    /\ \E ct \in cts, cl \in cls, cache \in BOOLEAN :
          LET h == OriginHeaders(ct, cl, cache, Undefined)
              s == serve("A", res, params, h, inHeaders.range, 0)
          IN /\ origin' = [status |-> 200, headers |-> h]
             /\ res' = s.res
             /\ params' = s.params
             /\ log' = [Raised(log, s.threw, "rejection") EXCEPT !.routed = s.routed]
             /\ body' = OpenBody(s.params.originSize)
    /\ pc' = "body"
    /\ UNCHANGED <<variant, query, inHeaders, fetches, hops, codec, buf>>

\* variant B: the request emits 'error'
B_FetchError ==
    /\ pc = "fetch" /\ variant = "B"
    /\ \E code \in NetworkErrors :
          LET r == onRequestError(res, params.url, code)
          IN /\ res' = r.res
             /\ log' = [Raised(log, r.threw, "exception") EXCEPT !.fetchFail = code]
    /\ pc' = "done"
    /\ UNCHANGED <<variant, query, inHeaders, params, origin, fetches, hops,
                   body, codec, buf>>

\* variant B: _onRequestResponse(originRes, req, res)
B_Response(statuses, cts, cls) ==
    /\ pc = "fetch" /\ variant = "B"
    /\ \E status \in statuses, ct \in cts, cl \in cls, cache \in BOOLEAN :
          LET h == OriginHeaders(ct, cl, cache,
                                 IF status = 302 THEN Location ELSE Undefined)
          IN /\ origin' = [status |-> status, headers |-> h]
             /\ IF status >= 400
                THEN LET r == redirectB(res, params.url)
                     IN /\ res' = r.res
                        /\ log' = Raised(log, r.threw, "exception")
                        /\ pc' = "done"
                        /\ UNCHANGED <<params, body>>
                ELSE IF status >= 300 /\ Truthy(Header(h, "location"))
                THEN LET r == redirectB(res, h["location"])
                     IN /\ params' = [params EXCEPT !.url = h["location"]]
                        /\ res' = r.res
                        /\ log' = Raised(log, r.threw, "exception")
                        /\ pc' = "done"
                        /\ UNCHANGED body
                ELSE LET s == serve("B", res, params, h, inHeaders.range, 10)
                     IN /\ res' = s.res
                        /\ params' = s.params
                        /\ log' = [Raised(log, s.threw, "exception")
                                      EXCEPT !.routed = s.routed]
                        /\ body' = OpenBody(s.params.originSize)
                        /\ pc' = "body"
    /\ UNCHANGED <<variant, query, inHeaders, fetches, hops, codec, buf>>

---------------------------------------------------------------------------
(* The origin body stream *)

\* the sizes the next data event of the origin body may have
NextChunk(b) ==
    IF b.events + 1 >= MaxBodyChunks THEN {b.left}
    ELSE {b.left, (b.left + 1) \div 2}

\* pipe(res) reads its source while the response takes data: it pauses the
\* source when res.write returns false, resumes it on 'drain', and unpipes
\* when the response closes
PipeFlows(r) == ~r.needDrain /\ ~r.destroyed

\* 'data' of the origin body: written to the codec whatever write returns
\* (compress), or piped to the client (pass-through)
BodyData ==
    /\ pc = "body" /\ body.state = "open" /\ body.left > 0
    /\ log.routed = "bypass" => PipeFlows(res)
    /\ \E n \in NextChunk(body) :
          /\ body' = [body EXCEPT !.left = @ - n, !.events = @ + 1]
          /\ IF log.routed = "transcode"
             THEN /\ codec' = [codec EXCEPT !.input = @ + n]
                  /\ UNCHANGED <<res, log>>
             ELSE \E full \in BOOLEAN :
                  LET r == write(res, n)
                  IN /\ res' = Blocked(r.res, full)
                     /\ log' = Raised(log, r.threw, "exception")
                     /\ UNCHANGED codec
    /\ UNCHANGED <<variant, query, inHeaders, params, pc, origin, fetches, hops, buf>>

\* 'end' of the origin body: the codec's input ends and metadata() is asked
\* for (compress), or the pipe ends the response (pass-through)
BodyEnd ==
    /\ pc = "body" /\ body.state = "open" /\ body.left = 0
    /\ log.routed = "bypass" => PipeFlows(res)
    /\ body' = [body EXCEPT !.state = "ended"]
    /\ IF log.routed = "transcode"
       THEN /\ codec' = [codec EXCEPT !.state = "metadata"]
            /\ pc' = "meta"
            /\ UNCHANGED <<res, log>>
       ELSE LET r == end(res)
            IN /\ res' = r.res
               /\ log' = Raised(log, r.threw, "exception")
               /\ pc' = "done"
               /\ UNCHANGED codec
    /\ UNCHANGED <<variant, query, inHeaders, params, origin, fetches, hops, buf>>

\* a failure while headers are sent or not
Failed(l, kind, r) == [l EXCEPT !.fail = kind, !.failLate = r.headersSent]

\* 'error' of the origin body.  Variant A listens in compress only and calls
\* redirect; variant B destroys the client socket
BodyError ==
    /\ pc = "body" /\ body.state = "open"
    /\ body' = [body EXCEPT !.state = "errored"]
    /\ IF variant = "A"
       THEN IF log.routed = "transcode"
            THEN LET r == redirectA(res, params.url)
                 IN /\ res' = r.res
                    /\ log' = Raised(Failed(log, "origin", res), r.threw, "exception")
            ELSE /\ log' = Escaped(Failed(log, "origin", res), TRUE, "exception")
                 /\ UNCHANGED res
       ELSE /\ res' = destroySocket(res)
            /\ log' = Failed(log, "origin", res)
    /\ pc' = "done"
    /\ UNCHANGED <<variant, query, inHeaders, params, origin, fetches, hops, codec, buf>>

---------------------------------------------------------------------------
(* The codec *)

\* sharp's toFormat accepts an integer quality between 1 and 100 and throws
\* on any other
QualityAccepted(q) == ~q.nan /\ q.v >= 1 /\ q.v <= 100

\* metadata() rejects: the catch of compress calls redirect
MetaFail ==
    /\ pc = "meta"
    /\ codec' = [codec EXCEPT !.state = "errored"]
    /\ LET r == redirect(variant, res, params.url)
       IN /\ res' = r.res
          /\ log' = Raised(Failed(log, "meta", res), r.threw, "rejection")
    /\ pc' = "done"
    /\ UNCHANGED <<variant, query, inHeaders, params, origin, fetches, hops, body, buf>>

\* metadata() resolves: resize above the height limit, grayscale, toFormat,
\* and the output listeners are attached
MetaOk ==
    /\ pc = "meta"
    /\ \E height \in {MAX_HEIGHT, MAX_HEIGHT + 1} :
          IF ~QualityAccepted(params.quality)
          THEN LET r == redirect(variant, res, params.url)
               IN /\ codec' = [codec EXCEPT !.state = "errored",
                                            !.resized = height > MAX_HEIGHT]
                  /\ res' = r.res
                  /\ log' = Raised(Failed(log, "codec", res), r.threw, "rejection")
                  /\ pc' = "done"
          ELSE \E out \in EncOutputs :
                  /\ codec' = [codec EXCEPT !.state = "encoding",
                                            !.resized = height > MAX_HEIGHT,
                                            !.out = out, !.size = Sum(out)]
                  /\ pc' = "enc"
                  /\ UNCHANGED <<res, log>>
    /\ UNCHANGED <<variant, query, inHeaders, params, origin, fetches, hops, body, buf>>

Format(p) == IF p.webp THEN "webp" ELSE "jpeg"

\* variant A, the 'info' listener of setupResponseHeaders
setupResponseHeaders(r, p, size) ==
    LET r1 == setHeader(r, "Content-Type", "image/" \o Format(p))
        r2 == Then(r1, LAMBDA x : setHeader(x, "Content-Length", NumStr(Num(size))))
        r3 == Then(r2, LAMBDA x : setHeader(x, "X-Original-Size", NumStr(p.originSize)))
        r4 == Then(r3, LAMBDA x : setHeader(x, "X-Bytes-Saved",
                 NumStr(IF p.originSize.nan THEN NaN ELSE Num(p.originSize.v - size))))
    IN Then(r4, LAMBDA x : Ok([x EXCEPT !.statusCode = 200]))

\* 'info' of the codec, emitted before its first 'data'; variant B does not
\* listen to it
CodecInfo ==
    /\ pc = "enc" /\ codec.state = "encoding" /\ ~codec.info
    /\ codec' = [codec EXCEPT !.info = TRUE]
    /\ IF variant = "A"
       THEN LET r == setupResponseHeaders(res, params, codec.size)
            IN /\ res' = r.res
               /\ log' = Raised(log, r.threw, "exception")
       ELSE UNCHANGED <<res, log>>
    /\ UNCHANGED <<variant, query, inHeaders, params, pc, origin, fetches, hops, body, buf>>

\* variant B, the 'data' listener of compress: collect, and flush at 1 MB
collectB(r, b, p, n) ==
    LET size == b.size + n
    IN IF size >= FLUSH_THRESHOLD
       THEN LET r1 == IF ~r.headersSent
                      THEN Then(setHeader(r, "content-type", "image/" \o Format(p)),
                                LAMBDA x : setHeader(x, "x-original-size", NumStr(p.originSize)))
                      ELSE Ok(r)
                r2 == Then(r1, LAMBDA x : write(x, size))
            IN [res |-> r2.res, threw |-> r2.threw, buf |-> EmptyBuf]
       ELSE [res |-> r, threw |-> FALSE,
             buf |-> [chunks |-> b.chunks + 1, size |-> size]]

\* 'data' of the codec.  Variant A pauses the codec when res.write returns
\* false and resumes it on 'drain'; variant B drops what res.write returns
CodecData ==
    /\ pc = "enc" /\ codec.state = "encoding" /\ codec.info /\ codec.out # <<>>
    /\ ~codec.paused
    /\ IF variant = "A"
       THEN \E full \in BOOLEAN :
            LET r == write(res, Head(codec.out))
                r1 == Blocked(r.res, full)
            IN /\ res' = r1
               /\ codec' = [codec EXCEPT !.out = Tail(@),
                               !.paused = ~r.threw /\ (r1.needDrain \/ r1.destroyed)]
               /\ log' = Raised(log, r.threw, "exception")
               /\ UNCHANGED buf
       ELSE LET c == collectB(res, buf, params, Head(codec.out))
            IN /\ \E full \in (IF c.buf = EmptyBuf THEN BOOLEAN ELSE {FALSE}) :
                     res' = Blocked(c.res, full)
               /\ codec' = [codec EXCEPT !.out = Tail(@)]
               /\ buf' = c.buf
               /\ log' = Raised(log, c.threw, "exception")
    /\ UNCHANGED <<variant, query, inHeaders, params, pc, origin, fetches, hops, body>>

\* 'end' of the codec
CodecEnd ==
    /\ pc = "enc" /\ codec.state = "encoding" /\ codec.info /\ codec.out = <<>>
    /\ ~codec.paused
    /\ codec' = [codec EXCEPT !.state = "ended"]
    /\ LET r == IF variant = "B" /\ buf.chunks > 0
                THEN Then(write(res, buf.size), LAMBDA x : end(x))
                ELSE end(res)
       IN /\ res' = r.res
          /\ log' = Raised(log, r.threw, "exception")
    /\ pc' = "done"
    /\ UNCHANGED <<variant, query, inHeaders, params, origin, fetches, hops, body, buf>>

\* 'error' of the codec.  Variant A calls redirect; variant B has no listener
CodecError ==
    /\ pc = "enc" /\ codec.state = "encoding"
    /\ codec' = [codec EXCEPT !.state = "errored"]
    /\ IF variant = "A"
       THEN LET r == redirectA(res, params.url)
            IN /\ res' = r.res
               /\ log' = Raised(Failed(log, "codec", res), r.threw, "exception")
       ELSE /\ log' = Escaped(Failed(log, "codec", res), TRUE, "exception")
            /\ UNCHANGED res
    /\ pc' = "done"
    /\ UNCHANGED <<variant, query, inHeaders, params, origin, fetches, hops, body, buf>>

---------------------------------------------------------------------------
(* The client *)

\* 'drain' of the response: the socket buffer emptied.  Variant A's
\* once("drain") listener resumes the codec
Drain ==
    /\ res.needDrain /\ ~res.destroyed /\ ~res.ended
    /\ res' = [res EXCEPT !.needDrain = FALSE]
    /\ codec' = [codec EXCEPT !.paused = FALSE]
    /\ UNCHANGED <<variant, query, inHeaders, params, pc, origin, fetches, hops,
                   body, buf, log>>

\* the client goes away while its response is produced.  No listener for
\* 'close' or 'aborted' of req or res is attached in either variant
ClientClose ==
    /\ pc \in {"body", "meta", "enc"}
    /\ ~res.destroyed /\ ~res.ended
    /\ res' = [res EXCEPT !.destroyed = TRUE, !.needDrain = FALSE]
    /\ log' = [log EXCEPT !.clientGone = TRUE]
    /\ UNCHANGED <<variant, query, inHeaders, params, pc, origin, fetches, hops,
                   body, codec, buf>>

---------------------------------------------------------------------------

Init == InitFrom(PipeUrls, PipeJpegFlags, PipeBwFlags, PipeQualities, Callers, PipeRanges)

Next ==
    \/ A_Start
    \/ B_Start
    \/ A_FetchRedirect
    \/ A_FetchFail
    \/ A_FetchOk(PipeContentTypes, PipeContentLengths)
    \/ B_FetchError
    \/ B_Response({200, 302, 304, 404, 500}, PipeContentTypes, PipeContentLengths)
    \/ BodyData
    \/ BodyEnd
    \/ BodyError
    \/ MetaFail
    \/ MetaOk
    \/ CodecInfo
    \/ CodecData
    \/ CodecEnd
    \/ CodecError
    \/ Drain
    \/ ClientClose

\* the whole pipeline of one request
Spec == Init /\ [][Next]_vars

\* parameter resolution over every query value of the model
InitParams == InitFrom(Urls, JpegFlags, BwFlags, Qualities, Callers, {Undefined})

NextParams ==
    \/ A_Start
    \/ B_Start

SpecParams == InitParams /\ [][NextParams]_vars

\* the compress-or-bypass decision over every origin content type and length
InitPolicy ==
    InitFrom(PolicyUrls, PolicyJpegFlags, PipeBwFlags, PolicyQualities,
             {[via |-> Undefined, xff |-> Undefined, ip |-> Remote]}, Ranges)

NextPolicy ==
    \/ A_Start
    \/ B_Start
    \/ A_FetchOk(ContentTypes, ContentLengths)
    \/ B_Response({200, 304}, ContentTypes, ContentLengths)

SpecPolicy == InitPolicy /\ [][NextPolicy]_vars

---------------------------------------------------------------------------
(* Properties *)

\* the request was answered: the response ended, the client socket was
\* destroyed, or an exception left the handler and took the process down
Finalized == res.ended \/ res.destroyed \/ log.uncaught # "none"

\* hhproxy resolved req.params
Resolved == params # NoParams

\* the decision between compress and pass-through was taken
Routed == log.routed # "none"

\* the response as the client sees it is the fallback redirect
CleanRedirect ==
    /\ res.ended
    /\ res.sentStatus = 302
    /\ Has(res.sentHeaders, "location")
    /\ res.sentHeaders["location"] = Str(encodeURI(params.url))
    /\ Has(res.sentHeaders, "content-length")
    /\ res.sentHeaders["content-length"] = "0"
    /\ \A i \in 1..Len(CacheHeaders) : ~Has(res.sentHeaders, CacheHeaders[i])

\* C1: once no callback of the request is pending any more, the client
\* response is finalized: it ended (bypass body, transcoded body, redirect
\* or error response) or the connection was terminated; no request is left
\* with an open response.
C1_ResponseFinalized == pc = "done" => Finalized

\* C2: when the transcode stage fails (metadata, codec, origin body) while no
\* header block was sent, the client gets a 302 whose Location is the target
\* url, whose Content-Length is 0 and which carries none of cache-control,
\* expires, date, etag.
C2_FailureRedirectsClean ==
    (pc = "done" /\ log.routed = "transcode" /\ log.fail # "none" /\ ~log.failLate)
        => CleanRedirect

\* C3: when the origin body or the codec fails after the header block was
\* sent, the connection is terminated.
C3_LateFailureTerminates ==
    (pc = "done" /\ log.fail \in {"origin", "codec"} /\ log.failLate)
        => (res.destroyed \/ log.uncaught # "none")

\* C4 as stated: a request that carries a Range header is never routed to the
\* transcode stage, whatever the origin content type and length.
C4_RangeNeverTranscoded ==
    (Routed /\ inHeaders.range # Undefined) => log.routed = "bypass"

\* C4 as amended: a request whose Range header has a non-empty value is never
\* routed to the transcode stage, whatever the origin content type and
\* length; its origin body is passed through, marked X-Proxy-Bypass.
C4_NonEmptyRangeBypassed ==
    (Routed /\ Truthy(inHeaders.range))
        => /\ log.routed = "bypass"
           /\ pc = "body" /\ body.state = "open"
           /\ Has(res.headers, "x-proxy-bypass")

\* a Range request for an image large enough to be transcoded otherwise
C4_Witness ==
    /\ Truthy(inHeaders.range)
    /\ log.routed = "bypass"
    /\ StartsWith(params.originType, image)
    /\ NumGt(params.originSize, Num(102400 - 1))

\* C5: a webp-target request for an image, without a Range header, is
\* bypassed when the origin content length is below 1024 and transcoded when
\* it is 1024 or more.
C5_WebpBoundary ==
    (/\ Routed /\ params.webp /\ inHeaders.range = Undefined
     /\ StartsWith(params.originType, image) /\ ~params.originSize.nan)
        => (log.routed = "transcode" <=> params.originSize.v >= 1024)

\* a webp request transcoded at exactly 1024 bytes
C5_Witness ==
    /\ log.routed = "transcode" /\ params.webp
    /\ params.originSize = Num(1024)

\* C6: an origin response whose content type is no image type, or whose
\* content length is 0, absent, unparseable or not positive, is never
\* transcoded, in both variants.
C6_NoTranscodeWithoutTypeAndLength ==
    (/\ Routed
     /\ \/ ~StartsWith(params.originType, image)
        \/ ~NumGt(params.originSize, Num(0)))
        => log.routed = "bypass"

C8_QualityClamped ==
    Resolved => /\ ~params.quality.nan
                /\ params.quality.v >= 1 /\ params.quality.v <= 100
                /\ (ParseInt(query.l, 10).nan => params.quality.v = 40)

\* C9: the proxy itself follows up to 4 origin redirects and answers with a
\* fallback only once 4 were followed; no request issues more than 5 origin
\* fetches.
C9_RedirectsFollowed ==
    /\ fetches <= 4 + 1
    /\ (pc = "done" /\ origin.status = 302 /\ Has(origin.headers, "location"))
          => hops = 4

\* C10: a request that carries this proxy's Via signature from a loopback
\* caller is answered with a redirect and no origin fetch is issued.
C10_NoSelfFetch ==
    (Resolved /\ isLoop(inHeaders))
        => (fetches = 0 /\ (ValidURL(params.url) => res.sentStatus = 302))

\* C11: while the last res.write of the request reported a full buffer and
\* no 'drain' was emitted since, no further body byte is written to the
\* client.
C11_NoWriteUntilDrain == [][res.needDrain => res'.bodyLen = res.bodyLen]_vars

\* C12: once the client has disconnected during a transcode or a
\* pass-through, no write to its response is attempted any more.
C12_NoWriteAfterDisconnect == log.clientGone => ~res.lateWrite

\* a transcode ran to its end and its response was ended towards a client
\* that is still there
Transcoded ==
    /\ log.routed = "transcode" /\ codec.state = "ended"
    /\ res.ended /\ ~res.destroyed

\* C13: every successful transcode of an origin with a declared length
\* reports X-Original-Size as that length and X-Bytes-Saved as that length
\* minus the encoded size, negative when the output is larger.
C13_BytesSavedReported ==
    (Transcoded /\ ~params.originSize.nan)
        => /\ Has(res.sentHeaders, "x-original-size")
           /\ res.sentHeaders["x-original-size"] = NumStr(params.originSize)
           /\ Has(res.sentHeaders, "x-bytes-saved")
           /\ res.sentHeaders["x-bytes-saved"]
                 = NumStr(Num(params.originSize.v - codec.size))

\* C14: once a body byte of a transcode of an origin with a declared length
\* was written to the client, the header block that went before it has status 200, the Content-Type of the
\* target format and an X-Original-Size, whatever the encoded size.
C14_HeadersBeforeBody ==
    (log.routed = "transcode" /\ ~params.originSize.nan /\ res.bodyLen > 0)
        => /\ res.sentStatus = 200
           /\ Has(res.sentHeaders, "content-type")
           /\ res.sentHeaders["content-type"] = "image/" \o Format(params)
           /\ Has(res.sentHeaders, "x-original-size")

\* C15: a fetch that failed below HTTP (name resolution, refused connection,
\* TLS, timeout) is never answered with a 302 redirect.
C15_NetworkFailureNotRedirected ==
    log.fetchFail \in NetworkErrors => res.sentStatus # 302

\* the header block sent carries the four headers of the proxy's policy
PolicyHeadersSent ==
    /\ Has(res.sentHeaders, "access-control-allow-origin")
    /\ res.sentHeaders["access-control-allow-origin"] = "*"
    /\ Has(res.sentHeaders, "cross-origin-resource-policy")
    /\ res.sentHeaders["cross-origin-resource-policy"] = "cross-origin"
    /\ Has(res.sentHeaders, "cross-origin-embedder-policy")
    /\ res.sentHeaders["cross-origin-embedder-policy"] = "unsafe-none"
    /\ Has(res.sentHeaders, "content-encoding")
    /\ res.sentHeaders["content-encoding"] = "identity"

\* C16 as stated: every response ended after a url was supplied, be it a
\* bypass, a transcode or a 302 fallback of any origin, carries
\* Access-Control-Allow-Origin: *, Cross-Origin-Resource-Policy: cross-origin,
\* Cross-Origin-Embedder-Policy: unsafe-none and Content-Encoding: identity.
C16_PolicyHeadersAlways ==
    (Resolved /\ res.ended /\ (Routed \/ res.sentStatus = 302))
        => PolicyHeadersSent

\* C16 as amended: every header block sent after an origin response was
\* accepted for serving (bypass, transcode, or a 302 fallback chosen during
\* the transcode) carries the four headers.
C16_ServedCarriesPolicyHeaders ==
    (Routed /\ res.headersSent) => PolicyHeadersSent

\* a fallback redirect chosen during the transcode was sent to the client
C16_Witness ==
    /\ log.routed = "transcode" /\ log.fail # "none"
    /\ res.ended /\ res.sentStatus = 302

C18_JpegBoundary ==
    (/\ Routed /\ ~params.webp /\ inHeaders.range = Undefined
     /\ StartsWith(params.originType, image) /\ ~params.originSize.nan)
        => IF EndsWith(params.originType, png) \/ EndsWith(params.originType, gif)
           THEN log.routed = "transcode" <=> params.originSize.v >= 102400
           ELSE params.originSize.v > 0 => log.routed = "transcode"

\* a jpeg-target request for a gif transcoded at exactly 102400 bytes
C18_Witness ==
    /\ log.routed = "transcode" /\ ~params.webp
    /\ EndsWith(params.originType, gif)
    /\ params.originSize = Num(102400)

\* C19: once redirect() has sent the header block of the 302, no operation
\* on the response is attempted that the response has to refuse: no header
\* mutation after the header block, no write after the end.
C19_SingleWriter == res.sentStatus = 302 => ~log.resThrew

\* C20: every response that was ended towards a client that is still there
\* and that carries a Content-Length (of an origin whose own length is a
\* number, when an origin response was served) has written as many body
\* bytes as the Content-Length it declares.
C20_ContentLengthMatchesBody ==
    (/\ res.ended /\ ~res.destroyed
     /\ Has(res.sentHeaders, "content-length")
     /\ Routed => ~params.originSize.nan)
        => res.sentHeaders["content-length"] = NumStr(Num(res.bodyLen))

=============================================================================
